---- MODULE Spec2Model ----
(***************************************************************************)
(* PreprocessVisualizer and PostprocessVisualizer of yt_eda/visualization.py *)
(* as a state machine: the two instances wrap a dataframe, every plotting   *)
(* method is one action, and the calls it makes into matplotlib are kept as *)
(* the event trace of the call.                                             *)
(***************************************************************************)
EXTENDS Integers, Sequences, FiniteSets, TLC

VARIABLES pre, post, call, outcome, events, result

vars == <<pre, post, call, outcome, events, result>>

\* ---------------------------------------------------------------- bounds
MaxCols == 3
MaxRows == 2

\* ------------------------------------------------------------ dataframes
\* Column names are 1..MaxCols; 0 is a name no dataframe has.
Names == 1..MaxCols
ArgNames == 0..MaxCols
DTypes == {"int64", "float64", "int32", "object", "category"}
\* Scores a fitted forest can report for one feature.
Scores == {0, 1}

\* A cell is <<v>>, or <<>> for a missing value (NaN / None).
isna(cell) == cell = <<>>

\* The columns 1..n in ascending and in descending order of name.
ColumnSeqs ==
    UNION { { [i \in 1..n |-> i], [i \in 1..n |-> n + 1 - i] } : n \in 0..MaxCols }

\* Frames of one row in which every dtype occurs at every position; the
\* float64 columns are the ones of ValuedFrames.
TypedFrames ==
    UNION { { [columns |-> cs, dtypes |-> ds,
               values |-> IF Len(cs) = 0 THEN <<>> ELSE << [i \in 1..Len(cs) |-> <<1>>] >>]
              : ds \in [1..Len(cs) -> DTypes \ {"float64"}] }
            : cs \in ColumnSeqs }

\* Frames of a float64 column that can hold NaN, a float64 column and an
\* int64 column, with every multiset of up to MaxRows rows (rows are listed
\* in one order: no operation depends on the order of the rows).
ValuedRows ==
    { <<a, b, c>> : a \in {<<>>, <<0>>, <<1>>}, b \in {<<0>>, <<1>>}, c \in {<<0>>, <<1>>} }

RowCode(row) == (IF isna(row[1]) THEN 0 ELSE row[1][1] + 1) * 4 + row[2][1] * 2 + row[3][1]

ValuedFrames ==
    UNION { { [columns |-> <<1, 2, 3>>, dtypes |-> <<"float64", "float64", "int64">>,
               values |-> rs]
              : rs \in { q \in [1..n -> ValuedRows] :
                           \A i \in 1..(n - 1) : RowCode(q[i]) <= RowCode(q[i + 1]) } }
            : n \in 0..MaxRows }

Range(s) == { s[i] : i \in 1..Len(s) }

\* df.columns.get_loc(name); 0 when the frame has no such column.
Loc(df, name) ==
    IF name \in Range(df.columns)
    THEN CHOOSE i \in 1..Len(df.columns) : df.columns[i] = name
    ELSE 0

Cell(df, r, name) == df.values[r][Loc(df, name)]

DTypeOf(df, name) == df.dtypes[Loc(df, name)]

\* df.select_dtypes(include=kinds).columns : the columns, in frame order,
\* whose dtype is one of kinds.
RECURSIVE select_from(_, _, _)
select_from(df, kinds, i) ==
    IF i > Len(df.columns) THEN <<>>
    ELSE (IF df.dtypes[i] \in kinds THEN <<df.columns[i]>> ELSE <<>>)
         \o select_from(df, kinds, i + 1)

select_any_dtype(df, kinds) == df.columns

select_dtypes(df, kinds) == select_from(df, kinds, 1)

\* ------------------------------------------------- groupby / size / unstack
\* Cells in sort order: values ascending, a missing value last.
CellLE(a, b) == IF isna(b) THEN TRUE ELSE IF isna(a) THEN FALSE ELSE a[1] <= b[1]

RECURSIVE SortCells(_)
SortCells(S) ==
    IF S = {} THEN <<>>
    ELSE LET m == CHOOSE x \in S : \A y \in S : CellLE(x, y)
         IN  <<m>> \o SortCells(S \ {m})

\* groupby(keys) has dropna=True: a row with a missing key is in no group.
groupby_keeps_all(df, r, group_first, group_second) == TRUE

groupby_keeps(df, r, group_first, group_second) ==
    /\ ~isna(Cell(df, r, group_first))
    /\ ~isna(Cell(df, r, group_second))

\* self.data.groupby([group_first, group_second]).size().unstack()
\* index: the first key's values, columns: the second key's values, both
\* sorted; a cell is the size of its group, missing when the group is empty.
groupby_size_unstack(df, group_first, group_second) ==
    LET kept == { r \in 1..Len(df.values) : groupby_keeps(df, r, group_first, group_second) }
        idx  == SortCells({ Cell(df, r, group_first) : r \in kept })
        cols == SortCells({ Cell(df, r, group_second) : r \in kept })
        size(i, j) == Cardinality({ r \in kept : /\ Cell(df, r, group_first) = idx[i]
                                                 /\ Cell(df, r, group_second) = cols[j] })
    IN  [index   |-> idx,
         columns |-> cols,
         cells   |-> [i \in 1..Len(idx) |->
                        [j \in 1..Len(cols) |->
                           IF size(i, j) = 0 THEN <<>> ELSE <<size(i, j)>>]]]

NoTable == [index |-> <<>>, columns |-> <<>>, cells |-> <<>>]

RECURSIVE SumCells(_)
SumCells(s) ==
    IF s = <<>> THEN 0
    ELSE (IF isna(Head(s)) THEN 0 ELSE Head(s)[1]) + SumCells(Tail(s))

RECURSIVE SumRowsOf(_)
SumRowsOf(cells) ==
    IF cells = <<>> THEN 0 ELSE SumCells(Head(cells)) + SumRowsOf(Tail(cells))

\* The total of the cells of a count table that hold a count.
TableTotal(table) == SumRowsOf(table.cells)

\* ------------------------------------------------------------ correlation
\* The dtypes DataFrame.corr() can turn into floats.
CorrDTypes == {"int64", "float64", "int32"}

RECURSIVE complete_obs(_, _, _, _)
\* The rows in which both columns hold a value, as <<x, y, 1>>.
complete_obs(df, a, b, r) ==
    IF r > Len(df.values) THEN <<>>
    ELSE (IF isna(Cell(df, r, a)) \/ isna(Cell(df, r, b)) THEN <<>>
          ELSE << <<Cell(df, r, a)[1], Cell(df, r, b)[1], 1>> >>)
         \o complete_obs(df, a, b, r + 1)

RECURSIVE Dot(_, _, _)
Dot(obs, i, j) ==
    IF obs = <<>> THEN 0 ELSE Head(obs)[i] * Head(obs)[j] + Dot(Tail(obs), i, j)

\* Pearson's r of two columns over their complete observations, kept exact:
\* r = num / sqrt(den), and nan when a variance is zero (a constant column,
\* or fewer than two observations).
pearson(df, a, b) ==
    LET obs == complete_obs(df, a, b, 1)
        n   == Dot(obs, 3, 3)
        cov == n * Dot(obs, 1, 2) - Dot(obs, 1, 3) * Dot(obs, 2, 3)
        va  == n * Dot(obs, 1, 1) - Dot(obs, 1, 3) * Dot(obs, 1, 3)
        vb  == n * Dot(obs, 2, 2) - Dot(obs, 2, 3) * Dot(obs, 2, 3)
    IN  IF va * vb = 0 THEN [nan |-> TRUE, num |-> 0, den |-> 0]
        ELSE [nan |-> FALSE, num |-> cov, den |-> va * vb]

\* DataFrame.corr() called with no numeric_only argument takes the default
\* of the installed pandas: True (before 2.0) drops every column that is not
\* numeric, False (from 2.0) converts every column and raises on a column
\* of labels.
corr_raises(df, numeric_only) ==
    /\ ~numeric_only
    /\ \E i \in 1..Len(df.dtypes) : df.dtypes[i] \notin CorrDTypes

corr_index(df) == select_dtypes(df, CorrDTypes)

corr(df) ==
    LET idx == corr_index(df)
    IN  [index  |-> idx,
         values |-> [i \in 1..Len(idx) |->
                       [j \in 1..Len(idx) |-> pearson(df, idx[i], idx[j])]]]

NoMatrix == [index |-> <<>>, values |-> <<>>]

\* self.data.corr()[target] : the target's column of the matrix, one entry
\* per row of the matrix.
corr_column(df, target) ==
    LET idx == corr_index(df)
    IN  [i \in 1..Len(idx) |-> [col |-> idx[i], r |-> pearson(df, idx[i], target)]]

Sign(x) == IF x > 0 THEN 1 ELSE IF x < 0 THEN 0 - 1 ELSE 0

\* a >= b for two correlations that are not nan.
CorrGE(a, b) == Sign(a.num) * a.num * a.num * b.den >= Sign(b.num) * b.num * b.num * a.den

\* x stays ahead of y in a descending sort with na_position='last'.
Precedes(x, y) ==
    IF y.r.nan THEN TRUE ELSE IF x.r.nan THEN FALSE ELSE CorrGE(x.r, y.r)

PrecedesAscending(x, y) ==
    IF y.r.nan THEN TRUE ELSE IF x.r.nan THEN FALSE ELSE CorrGE(y.r, x.r)

RECURSIVE InsertBy(_, _, _)
InsertBy(x, s, asc) ==
    IF s = <<>> THEN <<x>>
    ELSE IF (IF asc THEN PrecedesAscending(x, Head(s)) ELSE Precedes(x, Head(s)))
         THEN <<x>> \o s
         ELSE <<Head(s)>> \o InsertBy(x, Tail(s), asc)

RECURSIVE SortBy(_, _)
SortBy(s, asc) == IF s = <<>> THEN <<>> ELSE InsertBy(Head(s), SortBy(Tail(s), asc), asc)

sort_values_ascending(series) == SortBy(series, TRUE)

\* series.sort_values(ascending=False)
sort_values(series) == SortBy(series, FALSE)

\* ------------------------------------------------------ feature importance
\* self.data.drop(target, axis=1).columns
RECURSIVE drop_from(_, _)
drop_from(cols, target) ==
    IF cols = <<>> THEN <<>>
    ELSE (IF Head(cols) = target THEN <<>> ELSE <<Head(cols)>>) \o drop_from(Tail(cols), target)

drop(df, target) == drop_from(df.columns, target)

HasNaN(df, name) == \E r \in 1..Len(df.values) : isna(Cell(df, r, name))

\* model.fit(X, y) raises on a column of labels, on no sample, on no
\* feature and on a missing value in y.
fit_raises(df, X, target) ==
    \/ \E i \in 1..Len(df.dtypes) : df.dtypes[i] \notin CorrDTypes
    \/ Len(df.values) = 0
    \/ Len(X) = 0
    \/ HasNaN(df, target)

\* Whether fit accepts a missing value in X depends on the installed
\* scikit-learn; both outcomes are kept.
fit_may_raise(df, X) == \E i \in 1..Len(X) : HasNaN(df, X[i])

RECURSIVE InsertIdx(_, _, _, _)
InsertIdx(i, s, a, desc) ==
    IF s = <<>> THEN <<i>>
    ELSE IF (IF desc THEN a[i] >= a[Head(s)] ELSE a[i] <= a[Head(s)])
         THEN <<i>> \o s
         ELSE <<Head(s)>> \o InsertIdx(i, Tail(s), a, desc)

RECURSIVE ArgSortFrom(_, _, _)
ArgSortFrom(a, i, desc) ==
    IF i > Len(a) THEN <<>> ELSE InsertIdx(i, ArgSortFrom(a, i + 1, desc), a, desc)

argsort_descending(importances) == ArgSortFrom(importances, 1, TRUE)

\* importances.argsort() : the positions of the scores, smallest score first.
argsort(importances) == ArgSortFrom(importances, 1, FALSE)

\* plt.barh(X.columns[sorted_idx], importances[sorted_idx])
barh(X, importances, sorted_idx) ==
    [k \in 1..Len(sorted_idx) |->
        [col |-> X[sorted_idx[k]], score |-> importances[sorted_idx[k]]]]

\* ----------------------------------------------------------- figure events
\* One record per call into matplotlib / seaborn, in call order.
Ev(op, cols) == [op |-> op, cols |-> cols]

figure == Ev("figure", <<>>)
show == Ev("show", <<>>)

\* The loop of plot_numeric_distribution with its figures opened up front.
RECURSIVE open_all(_)
open_all(cols) == IF cols = <<>> THEN <<>> ELSE <<figure>> \o open_all(Tail(cols))

RECURSIVE draw_all(_)
draw_all(cols) ==
    IF cols = <<>> THEN <<>>
    ELSE <<Ev("histplot", <<Head(cols)>>), Ev("title", <<Head(cols)>>), show>>
         \o draw_all(Tail(cols))

numeric_loop_batched(numeric_cols) == open_all(numeric_cols) \o draw_all(numeric_cols)

\* for col in numeric_cols: figure, histplot, title, show
RECURSIVE numeric_loop(_)
numeric_loop(numeric_cols) ==
    IF numeric_cols = <<>> THEN <<>>
    ELSE <<figure, Ev("histplot", <<Head(numeric_cols)>>),
           Ev("title", <<Head(numeric_cols)>>), show>>
         \o numeric_loop(Tail(numeric_cols))

\* for col in cat_cols: figure, countplot, title, xticks, show
RECURSIVE categorical_loop(_)
categorical_loop(cat_cols) ==
    IF cat_cols = <<>> THEN <<>>
    ELSE <<figure, Ev("countplot", <<Head(cat_cols)>>),
           Ev("title", <<Head(cat_cols)>>), Ev("xticks", <<>>), show>>
         \o categorical_loop(Tail(cat_cols))

scatterplot_never_raises(df, x, y) == FALSE

\* sns.scatterplot(data=df, x=x, y=y) raises on a name that is no column.
scatterplot_raises(df, x, y) == x \notin Range(df.columns) \/ y \notin Range(df.columns)

\* for feature in features: figure, scatterplot, title, show
\* The loop ends at the first scatterplot that raises.
RECURSIVE scatter_loop(_, _, _)
scatter_loop(df, features, target) ==
    IF features = <<>> THEN [events |-> <<>>, raised |-> FALSE]
    ELSE IF scatterplot_raises(df, Head(features), target)
         THEN [events |-> <<figure>>, raised |-> TRUE]
         ELSE LET rest == scatter_loop(df, Tail(features), target)
              IN  [events |-> <<figure, Ev("scatterplot", <<Head(features)>>),
                                Ev("title", <<Head(features), target>>), show>>
                              \o rest.events,
                   raised |-> rest.raised]

\* ------------------------------------------------------------------ state
NoResult ==
    [table |-> NoTable, matrix |-> NoMatrix, correlations |-> <<>>,
     X |-> <<>>, importances |-> <<>>, bars |-> <<>>, models |-> 0, samples |-> 0]

Called(method, args) == [method |-> method, args |-> args]

\* What the instance holds when a method ends: no method assigns to self.
self_after_caching(self, locals) == [data |-> self.data, cache |-> locals]

self_after(self, locals) == self

\* pre_viz = PreprocessVisualizer(data); post_viz = PostprocessVisualizer(data)
InitOn(frames) ==
    /\ \E df \in frames : pre = [data |-> df] /\ post = [data |-> df]
    /\ call = Called("__init__", <<>>)
    /\ outcome = "returned"
    /\ events = <<>>
    /\ result = NoResult

Returns(ev, res) == outcome' = "returned" /\ events' = ev /\ result' = res
Raises(ev, res) == outcome' = "raised" /\ events' = ev /\ result' = res

\* ------------------------------------------------- PreprocessVisualizer
plot_numeric_distribution ==
    LET numeric_cols == select_dtypes(pre.data, {"int64", "float64"})
    IN  /\ call' = Called("plot_numeric_distribution", <<>>)
        /\ Returns(numeric_loop(numeric_cols), NoResult)
        /\ pre' = self_after(pre, numeric_cols)
        /\ UNCHANGED post

plot_categorical_distribution ==
    LET cat_cols == select_dtypes(pre.data, {"object"})
    IN  /\ call' = Called("plot_categorical_distribution", <<>>)
        /\ Returns(categorical_loop(cat_cols), NoResult)
        /\ pre' = self_after(pre, cat_cols)
        /\ UNCHANGED post

plot_channel_category_counts ==
    \E group_first, group_second \in ArgNames :
        /\ call' = Called("plot_channel_category_counts", <<group_first, group_second>>)
        /\ IF group_first \notin Range(pre.data.columns)
              \/ group_second \notin Range(pre.data.columns)
           THEN \* groupby: KeyError
                Raises(<<>>, NoResult)
           ELSE LET grouped == groupby_size_unstack(pre.data, group_first, group_second)
                    res     == [NoResult EXCEPT !.table = grouped]
                IN  IF Len(grouped.columns) = 0
                    THEN \* grouped.plot: no numeric data to plot
                         Raises(<<>>, res)
                    ELSE Returns(<<figure, Ev("bar", <<>>),
                                   Ev("title", <<group_second, group_first>>),
                                   Ev("xticks", <<>>), show>>, res)
        /\ pre' = self_after(pre, <<group_first, group_second>>)
        /\ UNCHANGED post

\* plt.figure(); sns.heatmap(self.data.corr(), ...); plt.title(); plt.show()
\* Either pandas default of numeric_only can be the installed one: the call
\* raises under False when corr raises, and goes on under True, or under
\* False when corr does not raise.
heatmap(self) ==
    \/ /\ corr_raises(self.data, FALSE)
       /\ Raises(<<figure>>, NoResult)
    \/ LET res == [NoResult EXCEPT !.matrix = corr(self.data)]
       IN  IF Len(res.matrix.index) = 0
           THEN \* sns.heatmap: no minimum of an empty matrix
                Raises(<<figure>>, res)
           ELSE Returns(<<figure, Ev("heatmap", res.matrix.index),
                          Ev("title", <<>>), show>>, res)

pre_plot_heatmap ==
    /\ call' = Called("pre.plot_heatmap", <<>>)
    /\ heatmap(pre)
    /\ pre' = self_after(pre, <<>>)
    /\ UNCHANGED post

\* ------------------------------------------------ PostprocessVisualizer
post_plot_heatmap ==
    /\ call' = Called("post.plot_heatmap", <<>>)
    /\ heatmap(post)
    /\ post' = self_after(post, <<>>)
    /\ UNCHANGED pre

plot_correlation_analysis ==
    \E target \in ArgNames :
        /\ call' = Called("plot_correlation_analysis", <<target>>)
        /\ \/ /\ corr_raises(post.data, FALSE)
              /\ Raises(<<>>, NoResult)
           \/ IF target \notin Range(corr_index(post.data))
              THEN \* corr()[target]: KeyError
                   Raises(<<>>, NoResult)
              ELSE LET correlations == sort_values(corr_column(post.data, target))
                   IN  Returns(<<figure, Ev("barplot", <<>>), Ev("title", <<target>>),
                                 Ev("xticks", <<>>), show>>,
                               [NoResult EXCEPT !.correlations = correlations])
        /\ post' = self_after(post, <<target>>)
        /\ UNCHANGED pre

\* [col for col in self.data.columns if col != target]
features_of(df, target) == drop_from(df.columns, target)

plot_scatterplots ==
    \E target \in ArgNames :
        LET loop == scatter_loop(post.data, features_of(post.data, target), target)
        IN  /\ call' = Called("plot_scatterplots", <<target>>)
            /\ IF loop.raised THEN Raises(loop.events, NoResult)
                              ELSE Returns(loop.events, NoResult)
            /\ post' = self_after(post, <<target>>)
            /\ UNCHANGED pre

plot_feature_importance ==
    \E target \in ArgNames :
        /\ call' = Called("plot_feature_importance", <<target>>)
        /\ IF target \notin Range(post.data.columns)
           THEN \* drop: KeyError
                /\ Raises(<<>>, NoResult)
                /\ post' = self_after(post, <<>>)
           ELSE LET X      == drop(post.data, target)
                    made   == [NoResult EXCEPT !.X = X, !.models = 1]
                    fitted == [made EXCEPT !.samples = Len(post.data.values)]
                IN  \/ /\ fit_raises(post.data, X, target) \/ fit_may_raise(post.data, X)
                       /\ Raises(<<>>, made)
                       /\ post' = self_after(post, <<>>)
                    \/ /\ ~fit_raises(post.data, X, target)
                       /\ \E importances \in [1..Len(X) -> Scores] :
                            LET sorted_idx == argsort(importances)
                            IN  /\ Returns(<<figure, Ev("barh", <<>>),
                                             Ev("xlabel", <<>>), show>>,
                                           [fitted EXCEPT
                                              !.importances = importances,
                                              !.bars = barh(X, importances, sorted_idx)])
                                /\ post' = self_after(post, importances)
        /\ UNCHANGED pre

Next ==
    \/ plot_numeric_distribution
    \/ plot_categorical_distribution
    \/ plot_channel_category_counts
    \/ pre_plot_heatmap
    \/ post_plot_heatmap
    \/ plot_correlation_analysis
    \/ plot_scatterplots
    \/ plot_feature_importance

Init == InitOn(TypedFrames)

InitValued == InitOn(ValuedFrames)

\* The calls on frames of every dtype, and on frames of every value.
Spec == Init /\ [][Next]_vars

SpecValued == InitValued /\ [][Next]_vars

\* ------------------------------------------------------------ properties
Columns(df) == Range(df.columns)

At(op) == { i \in 1..Len(events) : events[i].op = op }

Count(op) == Cardinality(At(op))

\* The events of kind op that are about column c.
CountFor(op, c) == Cardinality({ i \in At(op) : events[i].cols # <<>> /\ events[i].cols[1] = c })

IsIntOrFloat(df, c) == DTypeOf(df, c) \in {"int64", "int32", "float64"}

IsCategorical(df, c) == DTypeOf(df, c) \in {"object", "category"}

LoopMethods == {"plot_numeric_distribution", "plot_categorical_distribution", "plot_scatterplots"}

\* The columns a per-column method is to chart, stated from the dtypes.
Selected ==
    IF call.method = "plot_numeric_distribution"
    THEN { c \in Columns(pre.data) : DTypeOf(pre.data, c) \in {"int64", "float64"} }
    ELSE IF call.method = "plot_categorical_distribution"
    THEN { c \in Columns(pre.data) : DTypeOf(pre.data, c) = "object" }
    ELSE { c \in Columns(post.data) : c # call.args[1] }

DrawOp ==
    IF call.method = "plot_numeric_distribution" THEN "histplot"
    ELSE IF call.method = "plot_categorical_distribution" THEN "countplot"
    ELSE "scatterplot"

\* C1: plot_numeric_distribution draws exactly one histogram for every
\* column whose dtype is an integer or a float of any width, and none for
\* any other column.
C1_HistogramPerNumericColumn ==
    call.method = "plot_numeric_distribution" =>
        /\ outcome = "returned"
        /\ \A c \in Columns(pre.data) :
             CountFor("histplot", c) = IF IsIntOrFloat(pre.data, c) THEN 1 ELSE 0

\* C2: plot_categorical_distribution draws exactly one count chart for every
\* categorical column (object or category dtype), and none for a numeric one.
C2_CountChartPerCategoricalColumn ==
    call.method = "plot_categorical_distribution" =>
        /\ outcome = "returned"
        /\ \A c \in Columns(pre.data) :
             CountFor("countplot", c) = IF IsCategorical(pre.data, c) THEN 1 ELSE 0

GroupingExists ==
    /\ call.method = "plot_channel_category_counts"
    /\ call.args[1] \in Columns(pre.data)
    /\ call.args[2] \in Columns(pre.data)

CompleteRows ==
    { r \in 1..Len(pre.data.values) :
        /\ pre.data.values[r][Loc(pre.data, call.args[1])] # <<>>
        /\ pre.data.values[r][Loc(pre.data, call.args[2])] # <<>> }

\* C3 as stated: the counts of the table add up to the number of rows of the
\* dataset, missing grouping values or not.
C3_TotalIsRowCount ==
    GroupingExists => TableTotal(result.table) = Len(pre.data.values)

\* C3 amended: the counts of the table add up to the number of rows that
\* hold a value in both grouping columns.
C3_TotalIsCompleteRowCount ==
    GroupingExists => TableTotal(result.table) = Cardinality(CompleteRows)

C3_Witness ==
    /\ GroupingExists
    /\ outcome = "returned"
    /\ call.args[1] # call.args[2]
    /\ TableTotal(result.table) > 0
    /\ Cardinality(CompleteRows) < Len(pre.data.values)

NumericOthers ==
    { c \in Columns(post.data) : IsIntOrFloat(post.data, c) /\ c # call.args[1] }

\* C4: the ranking of plot_correlation_analysis is in descending order of
\* correlation (the correlations that are nan come last), every entry holds
\* the correlation of its column with the target, and every numeric column
\* other than the target is in it exactly once.
C4_RankingSortedAndComplete ==
    (call.method = "plot_correlation_analysis" /\ outcome = "returned") =>
        LET s == result.correlations
        IN  /\ \A i, j \in 1..Len(s) :
                 i < j => /\ s[i].r.nan => s[j].r.nan
                          /\ (~s[i].r.nan /\ ~s[j].r.nan) => CorrGE(s[i].r, s[j].r)
            /\ \A i \in 1..Len(s) : s[i].r = pearson(post.data, s[i].col, call.args[1])
            /\ \A c \in NumericOthers :
                 Cardinality({ i \in 1..Len(s) : s[i].col = c }) = 1

C4_Witness ==
    /\ call.method = "plot_correlation_analysis"
    /\ outcome = "returned"
    /\ Cardinality(NumericOthers) = 2
    /\ LET s == result.correlations
       IN  /\ ~s[1].r.nan /\ ~s[2].r.nan /\ ~CorrGE(s[2].r, s[1].r)
           /\ s[Len(s)].r.nan

AbsentName ==
    \/ /\ call.method = "plot_channel_category_counts"
       /\ \E i \in 1..2 : call.args[i] \notin Columns(pre.data)
    \/ /\ call.method \in {"plot_correlation_analysis", "plot_scatterplots"}
       /\ call.args[1] \notin Columns(post.data)

\* C5 as stated: a call that names a column the dataset does not have always
\* ends in an error, whatever the dataset.
C5_AbsentNameRaises == AbsentName => outcome = "raised"

\* C5 amended: such a call ends in an error, except plot_scatterplots on a
\* dataset with no columns, which returns having drawn nothing.
C5_AbsentNameRaisesUnlessNoColumns ==
    AbsentName =>
        IF call.method = "plot_scatterplots" /\ post.data.columns = <<>>
        THEN outcome = "returned" /\ events = <<>>
        ELSE outcome = "raised" /\ Count("show") = 0

C5_Witness ==
    /\ AbsentName
    /\ call.method = "plot_scatterplots"
    /\ Len(post.data.columns) = 2
    /\ outcome = "raised"

\* C6: no call changes what the two instances hold: each holds the dataset
\* it was constructed with and nothing else, and a plot_feature_importance
\* call that draws has built its own model and fitted it on every row.
C6_NothingRetained ==
    [][ /\ pre' = pre
        /\ post' = post
        /\ DOMAIN pre' = {"data"}
        /\ DOMAIN post' = {"data"}
        /\ (call'.method = "plot_feature_importance" /\ outcome' = "returned") =>
              /\ result'.models = 1
              /\ result'.samples = Len(post.data.values) ]_vars

C6_Witness ==
    /\ call.method = "plot_feature_importance"
    /\ outcome = "returned"
    /\ Len(result.bars) = 2
    /\ post.data.dtypes[1] = "int32"

\* C7: plot_heatmap of either class completes on every dataset, and the
\* matrix it draws is indexed by exactly the numeric columns.
C7_HeatmapOverNumericColumns ==
    call.method \in {"pre.plot_heatmap", "post.plot_heatmap"} =>
        /\ outcome = "returned"
        /\ Range(result.matrix.index) = { c \in Columns(pre.data) : IsIntOrFloat(pre.data, c) }
        /\ Count("show") = 1

\* C8 as stated: a call that returns has shown at least one chart.
C8_ReturnedCallHasShown ==
    (call.method # "__init__" /\ outcome = "returned") => Count("show") >= 1

\* C8 amended: a call ends returned or raised; one that returns has shown
\* one chart per selected column when it is a per-column method (none when
\* no column is selected), and exactly one chart otherwise.
C8_ReturnedCallHasShownUnlessNothingSelected ==
    call.method # "__init__" =>
        /\ outcome \in {"returned", "raised"}
        /\ outcome = "returned" =>
             IF call.method \in LoopMethods
             THEN Count("show") = Cardinality(Selected)
             ELSE Count("show") = 1

C8_Witness ==
    /\ call.method = "plot_numeric_distribution"
    /\ outcome = "returned"
    /\ Count("show") = 0
    /\ Len(pre.data.columns) = 2

\* The place in X = data.drop(target) of a column of the dataset.
PlaceInX(c) ==
    Loc(post.data, c)
    - (IF Loc(post.data, call.args[1]) < Loc(post.data, c) THEN 1 ELSE 0)

\* C9: the bars of plot_feature_importance are the columns other than the
\* target, each once and with the score the model gave it, in ascending
\* order of score; the model was fitted on every row.
C9_BarsAreFeaturesAscending ==
    (call.method = "plot_feature_importance" /\ outcome = "returned") =>
        LET bars == result.bars
        IN  /\ \A c \in Columns(post.data) \ {call.args[1]} :
                 Cardinality({ k \in 1..Len(bars) : bars[k].col = c }) = 1
            /\ Len(bars) = Cardinality(Columns(post.data) \ {call.args[1]})
            /\ \A k \in 1..Len(bars) :
                 bars[k].score = result.importances[PlaceInX(bars[k].col)]
            /\ \A k, l \in 1..Len(bars) : k < l => bars[k].score <= bars[l].score
            /\ result.samples = Len(post.data.values)

C9_Witness ==
    /\ call.method = "plot_feature_importance"
    /\ outcome = "returned"
    /\ Len(result.bars) = 2
    /\ result.importances[1] > result.importances[2]
    /\ Len(post.data.values) = 2

Frame == IF call.method = "plot_scatterplots" THEN post.data ELSE pre.data

\* The figures are driven one at a time, a column each, in column order.
OneFigureAtATime ==
    LET n == Len(events)
    IN  /\ \A i \in At("figure") :
             \/ i = n /\ outcome = "raised"
             \/ /\ i + 3 <= n
                /\ events[i + 1].op = DrawOp
                /\ events[i + 2].op = "title"
                /\ events[i + 2].cols[1] = events[i + 1].cols[1]
                /\ events[IF events[i + 3].op = "xticks" THEN i + 4 ELSE i + 3].op = "show"
        /\ \A i, j \in At("figure") : i < j => \E k \in At("show") : i < k /\ k < j
        /\ \A i \in At(DrawOp) : i > 1 /\ events[i - 1].op = "figure"
        /\ \A i, j \in At(DrawOp) :
             i < j => Loc(Frame, events[i].cols[1]) < Loc(Frame, events[j].cols[1])
        /\ \A i \in At(DrawOp) : events[i].cols[1] \in Selected
        /\ outcome = "returned" => \A c \in Selected : CountFor(DrawOp, c) = 1

\* C10 as stated: the figures are driven one at a time in column order, and
\* when the call ends every figure it opened has been shown.
C10_EveryOpenedFigureShown ==
    call.method \in LoopMethods =>
        /\ OneFigureAtATime
        /\ Count("figure") = Count("show")

\* C10 amended: the figures are driven one at a time in column order; when
\* the call returns every figure it opened has been shown, and when it
\* raises the figure opened last has not.
C10_EveryOpenedFigureShownOnReturn ==
    call.method \in LoopMethods =>
        /\ OneFigureAtATime
        /\ outcome = "returned" => Count("figure") = Count("show")
        /\ outcome = "raised" => Count("figure") = Count("show") + 1

C10_Witness ==
    /\ call.method = "plot_scatterplots"
    /\ outcome = "returned"
    /\ Count("show") = 2
    /\ post.data.columns[1] > post.data.columns[2]

====
